---- MODULE Spec2Model ----
(***************************************************************************)
(* Workout API: a CRUD backend over two tables, exercise and workout.      *)
(*                                                                         *)
(* Two variants of the program are modelled over the same two tables:      *)
(*   "rest"      src/server.js (one endpoint /api/workout, dispatched on   *)
(*               method and action) calling the Supabase functions of      *)
(*               src/db.js lines 1-174.  Every store call is awaited, so   *)
(*               a function with two store calls is two steps and other    *)
(*               requests may run between them.                            *)
(*   "embedded"  the per-resource routes of src/db.js lines 176-386 over   *)
(*               better-sqlite3, whose calls are synchronous: every        *)
(*               handler is one step.                                      *)
(*                                                                         *)
(* The store is modelled by its schema (src/db.js 160-172 and 205-219):    *)
(* primary keys assigned by the store, NOT NULL on exercise.name and       *)
(* workout.date, and the foreign key workout.exercise_id -> exercise.id.   *)
(* Store calls fail only when the store rejects the statement; network     *)
(* outages are outside the model.                                          *)
(***************************************************************************)
EXTENDS Integers, Sequences, FiniteSets, TLC

(* ------------------------------ bounds -------------------------------- *)
MaxDate == 2          \* dates are 1..MaxDate, ordered like YYYY-MM-DD strings
MaxExerciseId == 2    \* no exercise is created beyond this id
MaxWorkoutId == 3     \* no save is started that would assign ids beyond this
MaxDuration == 2      \* durations are 1..MaxDuration
MaxLen == 2           \* longest exercises array of a save request
ConcMaxLen == 1       \* the same, for requests that run concurrently

Dates == 1..MaxDate
ExerciseIds == 1..MaxExerciseId
Durations == 1..MaxDuration
Procs == {"p1", "p2"}

VARIABLES
  variant,      \* "rest" or "embedded": which program is running
  exercise,     \* table exercise: set of [id, name, gif]
  workout,      \* table workout: set of [id, date, exercise_id, duration]
  exerciseSeq,  \* last value of the store's sequence for exercise.id (rest)
  workoutSeq,   \* last value of the store's sequence for workout.id
  pc,           \* per request slot: where its handler is suspended
  local,        \* per request slot: the arguments of the suspended handler
  resp          \* the last response written: [status, body]

vars == <<variant, exercise, workout, exerciseSeq, workoutSeq, pc, local, resp>>

(* ------------------------- values of requests -------------------------- *)
\* JS undefined / JSON null / SQL NULL of a text value.
NULL == "<null>"
\* A date that is absent from the request (undefined; bound as SQL NULL).
NoDate == 0

\* The {name, gif} bodies of exercise requests: two complete ones, and bodies
\* that lack name, gif or both.
ValidBodies == {[name |-> "a", gif |-> "g"], [name |-> "b", gif |-> "h"]}
Bodies ==
  ValidBodies \cup {[name |-> NULL, gif |-> "g"], [name |-> "a", gif |-> NULL],
                    [name |-> NULL, gif |-> NULL]}

Entry == [id : ExerciseIds, duration : Durations]
ArraysUpTo(n) == UNION {[1..k -> Entry] : k \in 0..n}
\* The exercises field of a body: an array, absent, or a value that is no array.
Arr(items) == [kind |-> "array", items |-> items]
ExercisesFieldsUpTo(n) ==
  {Arr(a) : a \in ArraysUpTo(n)} \cup
  {[kind |-> "absent", items |-> <<>>], [kind |-> "object", items |-> <<>>]}

\* The frame of a suspended handler: its arguments and, for saveWorkout, the
\* number of rows its delete removed (the code does not read that number; it
\* is kept to tell what a save replaced).
NoLocal == [date |-> NoDate, exercises |-> <<>>, id |-> 0, replaced |-> 0]

ErrorBody(msg) == [error |-> msg]

(* ----------------------------- the store ------------------------------- *)
RECURSIVE OrderById(_)
\* ORDER BY id (ascending) of a set of rows.
OrderById(rows) ==
  IF rows = {} THEN <<>>
  ELSE LET m == CHOOSE r \in rows : \A q \in rows : r.id <= q.id
       IN  <<m>> \o OrderById(rows \ {m})

RECURSIVE OrderByDateDesc(_)
\* ORDER BY date DESC of a set of rows, projected on date.
OrderByDateDesc(rows) ==
  IF rows = {} THEN <<>>
  ELSE LET m == CHOOSE r \in rows : \A q \in rows : r.date >= q.date
       IN  <<m.date>> \o OrderByDateDesc(rows \ {m})

RECURSIVE SortDesc(_)
\* ORDER BY date DESC of a set of dates.
SortDesc(ds) ==
  IF ds = {} THEN <<>>
  ELSE LET m == CHOOSE d \in ds : \A e \in ds : d >= e
       IN  <<m>> \o SortDesc(ds \ {m})

\* A store without the foreign key: no delete of an exercise is rejected.
NeverReferenced(wk, id) == FALSE

\* FOREIGN KEY (exercise_id) REFERENCES exercise(id), on the referencing side.
ForeignKeyHolds(ex, exercise_id) == \E e \in ex : e.id = exercise_id

\* The same foreign key on the referenced side: a row of exercise that a row
\* of workout references cannot be deleted.
StillReferenced(wk, id) == \E w \in wk : w.exercise_id = id

\* workout.date is NOT NULL, workout.exercise_id is NOT NULL and a foreign key.
WorkoutRowAccepted(ex, date, e) ==
  date # NoDate /\ ForeignKeyHolds(ex, e.id)


\* A save that forgets its delete: the rows of the date stay.
DeleteNothing(wk, date) == wk

\* DELETE FROM workout WHERE date = ?  (supabase .delete().eq("date", date)).
DeleteWhereDate(wk, date) == {w \in wk : w.date # date}

\* The rows an insert of the elements of items creates, ids from the sequence.
NewRows(seq, date, items) ==
  {[id |-> seq + i, date |-> date, exercise_id |-> items[i].id,
    duration |-> items[i].duration] : i \in 1..Len(items)}

(* ------------------- src/db.js 1-174: Supabase functions --------------- *)
\* select("*").order("id")
getAllExercises(ex) == OrderById(ex)

\* select("*").eq("id", id).single(): the row, or null (PGRST116).
getExerciseById(ex, id) ==
  IF \E e \in ex : e.id = id
  THEN [found |-> TRUE, row |-> CHOOSE e \in ex : e.id = id]
  ELSE [found |-> FALSE, row |-> [id |-> id, name |-> NULL, gif |-> NULL]]

\* The embedded resource exercise:exercise_id (name, gif) of one workout row:
\* null when no exercise row has that id.
Embedded(ex, w) ==
  IF \E e \in ex : e.id = w.exercise_id
  THEN LET e == CHOOSE x \in ex : x.id = w.exercise_id
       IN  [isNull |-> FALSE, name |-> e.name, gif |-> e.gif]
  ELSE [isNull |-> TRUE, name |-> NULL, gif |-> NULL]

\* data.map(workout => ({...workout, name: workout.exercise.name, gif: ...}))
Flatten(ex, w) ==
  [id |-> w.id, date |-> w.date, exercise_id |-> w.exercise_id,
   duration |-> w.duration, name |-> Embedded(ex, w).name,
   gif |-> Embedded(ex, w).gif]

\* getWorkoutByDate: rows of the date ordered by id, flattened; reading .name
\* of a null embedded exercise throws a TypeError.
getWorkoutByDate(wk, ex, date) ==
  LET data == OrderById({w \in wk : w.date = date})
  IN  IF \E i \in 1..Len(data) : Embedded(ex, data[i]).isNull
      THEN [ok |-> FALSE, rows |-> <<>>]
      ELSE [ok |-> TRUE, rows |-> [i \in 1..Len(data) |-> Flatten(ex, data[i])]]

\* An insert whose error is dropped: nothing is inserted and nothing thrown.
InsertAllIgnoringError(wk, ex, seq, date, items) ==
  IF \A i \in 1..Len(items) : WorkoutRowAccepted(ex, date, items[i])
  THEN [ok |-> TRUE, workout |-> wk \cup NewRows(seq, date, items),
        seq |-> seq + Len(items)]
  ELSE [ok |-> TRUE, workout |-> wk, seq |-> seq + Len(items)]

\* exercises.map(exercise => ({date, exercise_id: exercise.id, duration}))
\* followed by one insert of all rows: the statement inserts every row or,
\* when the store rejects one of them, none; the sequence values it drew are
\* not given back.
InsertAll(wk, ex, seq, date, items) ==
  IF \A i \in 1..Len(items) : WorkoutRowAccepted(ex, date, items[i])
  THEN [ok |-> TRUE, workout |-> wk \cup NewRows(seq, date, items),
        seq |-> seq + Len(items)]
  ELSE [ok |-> FALSE, workout |-> wk, seq |-> seq + Len(items)]

\* The dates as the query returned them, duplicates kept.
KeepDuplicates(ds) == ds

RECURSIVE Unique(_)
\* [...new Set(dates)]: the first occurrence of each value, in order.
Unique(ds) ==
  IF ds = <<>> THEN <<>>
  ELSE LET init == Unique(SubSeq(ds, 1, Len(ds) - 1))
           last == ds[Len(ds)]
       IN  IF \E i \in 1..Len(init) : init[i] = last THEN init
           ELSE Append(init, last)

\* select("date").order("date", {ascending: false}), then the unique dates.
getAllWorkoutDates(wk) == Unique(OrderByDateDesc(wk))

\* delete({count: "exact"}).eq("date", date)
deleteWorkout(wk, date) ==
  [workout |-> DeleteWhereDate(wk, date),
   deletedRows |-> Cardinality({w \in wk : w.date = date})]

\* insert({name, gif}).select().single()
addExercise(ex, seq, name, gif) ==
  [id |-> seq + 1, name |-> name, gif |-> gif]

\* An update that writes the row whether or not it exists (an upsert).
upsertExercise(ex, id, name, gif) ==
  [exercise |-> {e \in ex : e.id # id} \cup
                  {[id |-> id, name |-> name, gif |-> gif]},
   updated |-> TRUE]

\* update({name, gif}).eq("id", id).select(): the table after the update and
\* the number of rows it returned.
updateExercise(ex, id, name, gif) ==
  [exercise |-> {IF e.id = id THEN [id |-> e.id, name |-> name, gif |-> gif]
                 ELSE e : e \in ex},
   updated |-> Cardinality({e \in ex : e.id = id}) > 0]

\* A check that finds no referencing row.
ReferencingNone(wk, id) == {}

\* deleteExercise, first store call: select("id").eq("exercise_id", id).
ReferencingWorkouts(wk, id) == {w \in wk : w.exercise_id = id}

\* deleteExercise, second store call: delete({count: "exact"}).eq("id", id).
\* The store rejects it while a workout row references the exercise.
DeleteExerciseRow(ex, wk, id) ==
  IF StillReferenced(wk, id) /\ (\E e \in ex : e.id = id)
  THEN [ok |-> FALSE, exercise |-> ex, count |-> 0]
  ELSE [ok |-> TRUE, exercise |-> {e \in ex : e.id # id},
        count |-> Cardinality({e \in ex : e.id = id})]


(* --------------- src/server.js: app.all("/api/workout") ---------------- *)
Idle(p) == variant = "rest" /\ pc[p] = "idle"

\* res.json(x), res.status(n).json({error}), and the catch of lines 128-133.
\* The body of a response is a record: a JSON object as sent, or a JSON array
\* under the name of what it lists.
\* A response is tagged with the route that wrote it (op) and the date or id
\* its request named (arg, 0 when it named none).
Ok(op, arg, data) ==
  [op |-> op, arg |-> arg, status |-> 200, error |-> "", data |-> data]
Fail(op, arg, status, msg) ==
  [op |-> op, arg |-> arg, status |-> status, error |-> msg,
   data |-> ErrorBody(msg)]
Caught(op, arg, msg) == Fail(op, arg, 500, msg)

\* !name, !gif, !exercises: undefined, null and "" are falsy.
Falsy(v) == v = NULL \/ v = ""

\* GET action=exercises
GetExercisesA(p) ==
  /\ Idle(p)
  /\ resp' = Ok("GET exercises", 0, [exercises |-> getAllExercises(exercise)])
  /\ UNCHANGED <<variant, exercise, workout, exerciseSeq, workoutSeq, pc, local>>

\* GET action=exercise&id
GetExerciseA(p, id) ==
  /\ Idle(p)
  /\ resp' = IF getExerciseById(exercise, id).found
             THEN Ok("GET exercise", id, getExerciseById(exercise, id).row)
             ELSE Fail("GET exercise", id, 404, "Exercise not found")
  /\ UNCHANGED <<variant, exercise, workout, exerciseSeq, workoutSeq, pc, local>>

\* GET action=workout&date
GetWorkoutA(p, date) ==
  /\ Idle(p)
  /\ resp' = IF getWorkoutByDate(workout, exercise, date).ok
             THEN Ok("GET workout", date,
                     [workouts |-> getWorkoutByDate(workout, exercise, date).rows])
             ELSE Caught("GET workout", date, "Cannot read properties of null")
  /\ UNCHANGED <<variant, exercise, workout, exerciseSeq, workoutSeq, pc, local>>

\* GET action=dates
GetDatesA(p) ==
  /\ Idle(p)
  /\ resp' = Ok("GET dates", 0, [dates |-> getAllWorkoutDates(workout)])
  /\ UNCHANGED <<variant, exercise, workout, exerciseSeq, workoutSeq, pc, local>>

\* POST action=workout&date: validation, then saveWorkout up to its first
\* await (the delete of the date's rows).
PostWorkoutA(p, date, f) ==
  /\ Idle(p)
  /\ IF f.kind # "array"
     THEN /\ resp' = Fail("POST workout", date, 400, "Exercises array is required")
          /\ UNCHANGED <<workout, pc, local>>
     ELSE /\ workoutSeq + Len(f.items) <= MaxWorkoutId
          /\ workout' = DeleteWhereDate(workout, date)
          /\ pc' = [pc EXCEPT ![p] = "saveWorkout_insert"]
          /\ local' = [local EXCEPT
                         ![p] = [date |-> date, exercises |-> f.items, id |-> 0,
                                replaced |-> deleteWorkout(workout, date).deletedRows]]
          /\ UNCHANGED resp
  /\ UNCHANGED <<variant, exercise, exerciseSeq, workoutSeq>>

\* saveWorkout after its delete: the insert of the new rows, and the response.
saveWorkout_insert(p) ==
  /\ variant = "rest" /\ pc[p] = "saveWorkout_insert"
  /\ LET r == InsertAll(workout, exercise, workoutSeq,
                        local[p].date, local[p].exercises)
     IN  /\ workout' = r.workout
         /\ workoutSeq' = r.seq
         /\ resp' = IF r.ok THEN Ok("POST workout", local[p].date, [success |-> TRUE])
                    ELSE Caught("POST workout", local[p].date,
                                "violates foreign key constraint")
  /\ pc' = [pc EXCEPT ![p] = "idle"]
  /\ local' = [local EXCEPT ![p] = NoLocal]
  /\ UNCHANGED <<variant, exercise, exerciseSeq>>

\* POST action=exercise
PostExerciseA(p, name, gif) ==
  /\ Idle(p)
  /\ IF Falsy(name) \/ Falsy(gif)
     THEN /\ resp' = Fail("POST exercise", 0, 400, "Name and gif URL are required")
          /\ UNCHANGED <<exercise, exerciseSeq>>
     ELSE /\ exerciseSeq < MaxExerciseId
          /\ exercise' = exercise \cup {addExercise(exercise, exerciseSeq, name, gif)}
          /\ exerciseSeq' = exerciseSeq + 1
          /\ resp' = Ok("POST exercise", 0, addExercise(exercise, exerciseSeq, name, gif))
  /\ UNCHANGED <<variant, workout, workoutSeq, pc, local>>

\* PUT action=exercise&id
PutExerciseA(p, id, name, gif) ==
  /\ Idle(p)
  /\ IF Falsy(name) \/ Falsy(gif)
     THEN /\ resp' = Fail("PUT exercise", id, 400, "Name and gif URL are required")
          /\ UNCHANGED exercise
     ELSE LET result == updateExercise(exercise, id, name, gif)
          IN  /\ exercise' = result.exercise
              /\ resp' = IF ~result.updated
                         THEN Fail("PUT exercise", id, 404, "Exercise not found")
                         ELSE Ok("PUT exercise", id, [success |-> TRUE, updated |-> TRUE])
  /\ UNCHANGED <<variant, workout, exerciseSeq, workoutSeq, pc, local>>

\* DELETE action=workout&date
DeleteWorkoutA(p, date) ==
  /\ Idle(p)
  /\ workout' = deleteWorkout(workout, date).workout
  /\ resp' = Ok("DELETE workout", date, [success |-> TRUE,
                 deletedRows |-> deleteWorkout(workout, date).deletedRows])
  /\ UNCHANGED <<variant, exercise, exerciseSeq, workoutSeq, pc, local>>

\* DELETE action=exercise&id: deleteExercise up to its first await, the query
\* for referencing workout rows; the Error it throws is caught at line 128.
DeleteExerciseA(p, id) ==
  /\ Idle(p)
  /\ IF Cardinality(ReferencingWorkouts(workout, id)) > 0
     THEN /\ resp' = Caught("DELETE exercise", id,
                             "Cannot delete exercise that is used in workouts")
          /\ UNCHANGED <<pc, local>>
     ELSE /\ pc' = [pc EXCEPT ![p] = "deleteExercise_delete"]
          /\ local' = [local EXCEPT
                         ![p] = [date |-> NoDate, exercises |-> <<>>, id |-> id,
                                replaced |-> 0]]
          /\ UNCHANGED resp
  /\ UNCHANGED <<variant, exercise, workout, exerciseSeq, workoutSeq>>

\* deleteExercise after its check: the delete of the row, and the response.
deleteExercise_delete(p) ==
  /\ variant = "rest" /\ pc[p] = "deleteExercise_delete"
  /\ LET r == DeleteExerciseRow(exercise, workout, local[p].id)
     IN  /\ exercise' = r.exercise
         /\ resp' = IF ~r.ok
                    THEN Caught("DELETE exercise", local[p].id,
                                "violates foreign key constraint")
                    ELSE IF ~(r.count > 0)
                    THEN Fail("DELETE exercise", local[p].id, 404,
                              "Exercise not found")
                    ELSE Ok("DELETE exercise", local[p].id,
                            [success |-> TRUE, deleted |-> TRUE])
  /\ pc' = [pc EXCEPT ![p] = "idle"]
  /\ local' = [local EXCEPT ![p] = NoLocal]
  /\ UNCHANGED <<variant, workout, exerciseSeq, workoutSeq>>

\* Any method with an action or parameters no branch accepts.
InvalidA(p) ==
  /\ Idle(p)
  /\ resp' = Fail("invalid", 0, 400, "Invalid action or missing parameters")
  /\ UNCHANGED <<variant, exercise, workout, exerciseSeq, workoutSeq, pc, local>>

\* A method other than GET, POST, PUT, DELETE.
MethodNotAllowedA(p) ==
  /\ Idle(p)
  /\ resp' = Fail("method", 0, 405, "Method not allowed")
  /\ UNCHANGED <<variant, exercise, workout, exerciseSeq, workoutSeq, pc, local>>


(* ------------- src/db.js 176-386: routes over better-sqlite3 ----------- *)
\* INTEGER PRIMARY KEY without AUTOINCREMENT: one more than the largest id.
NextRowid(ex) ==
  IF ex = {} THEN 1
  ELSE (CHOOSE m \in {e.id : e \in ex} : \A e \in ex : m >= e.id) + 1

\* SELECT w.*, e.name, e.gif FROM workout w JOIN exercise e
\*   ON w.exercise_id = e.id WHERE w.date = ? ORDER BY w.id
JoinByDate(wk, ex, date) ==
  LET data == OrderById({w \in wk : w.date = date /\ ~Embedded(ex, w).isNull})
  IN  [i \in 1..Len(data) |-> Flatten(ex, data[i])]

RECURSIVE RunInserts(_, _, _, _, _)
\* exercises.forEach(exercise => insertStmt.run(date, exercise.id,
\* exercise.duration)): the state when the loop ends or the first insert the
\* store rejects throws.
RunInserts(wk, ex, seq, date, items) ==
  IF items = <<>> THEN [ok |-> TRUE, workout |-> wk, seq |-> seq]
  ELSE IF ~WorkoutRowAccepted(ex, date, Head(items))
       THEN [ok |-> FALSE, workout |-> wk, seq |-> seq]
       ELSE RunInserts(wk \cup NewRows(seq, date, <<Head(items)>>), ex,
                       seq + 1, date, Tail(items))

\* The function given to db.transaction: the delete, then the inserts;
\* forEach of a value that is no array throws a TypeError after the delete.
TransactionBody(wk, ex, seq, date, f) ==
  IF f.kind = "array"
  THEN RunInserts(DeleteWhereDate(wk, date), ex, seq, date, f.items)
  ELSE [ok |-> FALSE, workout |-> DeleteWhereDate(wk, date), seq |-> seq]

\* The transaction without its ROLLBACK: what the body left is kept.
transactionWithoutRollback(wk, ex, seq, date, f) ==
  TransactionBody(wk, ex, seq, date, f)

\* db.transaction(fn)(): BEGIN, the body, COMMIT; ROLLBACK when it throws.
transaction(wk, ex, seq, date, f) ==
  LET r == TransactionBody(wk, ex, seq, date, f)
  IN  IF r.ok THEN r ELSE [ok |-> FALSE, workout |-> wk, seq |-> seq]

Sync == variant = "embedded"

\* GET /api/exercises
GetExercisesB ==
  /\ Sync
  /\ resp' = Ok("GET /api/exercises", 0, [exercises |-> OrderById(exercise)])
  /\ UNCHANGED <<variant, exercise, workout, exerciseSeq, workoutSeq, pc, local>>

\* GET /api/exercises/:id
GetExerciseB(id) ==
  /\ Sync
  /\ resp' = IF \E e \in exercise : e.id = id
             THEN Ok("GET /api/exercises/:id", id, CHOOSE e \in exercise : e.id = id)
             ELSE Fail("GET /api/exercises/:id", id, 404, "Exercise not found")
  /\ UNCHANGED <<variant, exercise, workout, exerciseSeq, workoutSeq, pc, local>>

\* POST /api/exercises: no check of the body; name is NOT NULL in the table.
PostExerciseB(name, gif) ==
  /\ Sync
  /\ IF name = NULL
     THEN /\ resp' = Caught("POST /api/exercises", 0,
                             "NOT NULL constraint failed: exercise.name")
          /\ UNCHANGED exercise
     ELSE /\ NextRowid(exercise) <= MaxExerciseId
          /\ exercise' = exercise \cup
               {[id |-> NextRowid(exercise), name |-> name, gif |-> gif]}
          /\ resp' = Ok("POST /api/exercises", 0,
                         [id |-> NextRowid(exercise), name |-> name, gif |-> gif])
  /\ UNCHANGED <<variant, workout, exerciseSeq, workoutSeq, pc, local>>

\* PUT /api/exercises/:id: no check of the body.
PutExerciseB(id, name, gif) ==
  /\ Sync
  /\ IF (\E e \in exercise : e.id = id) /\ name = NULL
     THEN /\ resp' = Caught("PUT /api/exercises/:id", id,
                             "NOT NULL constraint failed: exercise.name")
          /\ UNCHANGED exercise
     ELSE LET result == updateExercise(exercise, id, name, gif)
          IN  /\ exercise' = result.exercise
              /\ resp' = IF ~result.updated
                         THEN Fail("PUT /api/exercises/:id", id, 404,
                                   "Exercise not found")
                         ELSE Ok("PUT /api/exercises/:id", id, [success |-> TRUE])
  /\ UNCHANGED <<variant, workout, exerciseSeq, workoutSeq, pc, local>>

\* DELETE /api/exercises/:id
DeleteExerciseB(id) ==
  /\ Sync
  /\ IF Cardinality(ReferencingWorkouts(workout, id)) > 0
     THEN /\ resp' = Fail("DELETE /api/exercises/:id", id, 400,
                           "Cannot delete exercise that is used in workouts")
          /\ UNCHANGED exercise
     ELSE LET r == DeleteExerciseRow(exercise, workout, id)
          IN  /\ exercise' = r.exercise
              /\ resp' = IF ~r.ok
                         THEN Caught("DELETE /api/exercises/:id", id,
                                     "FOREIGN KEY constraint failed")
                         ELSE IF r.count = 0
                         THEN Fail("DELETE /api/exercises/:id", id, 404,
                                   "Exercise not found")
                         ELSE Ok("DELETE /api/exercises/:id", id, [success |-> TRUE])
  /\ UNCHANGED <<variant, workout, exerciseSeq, workoutSeq, pc, local>>

\* GET /api/workouts/:date
GetWorkoutsB(date) ==
  /\ Sync
  /\ resp' = Ok("GET /api/workouts/:date", date,
                [workouts |-> JoinByDate(workout, exercise, date)])
  /\ UNCHANGED <<variant, exercise, workout, exerciseSeq, workoutSeq, pc, local>>

\* POST /api/workouts: no check of the body; date and exercises as sent.
PostWorkoutsB(date, f) ==
  /\ Sync
  /\ workoutSeq + Len(f.items) <= MaxWorkoutId
  /\ LET r == transaction(workout, exercise, workoutSeq, date, f)
     IN  /\ workout' = r.workout
         /\ workoutSeq' = r.seq
         /\ resp' = IF r.ok THEN Ok("POST /api/workouts", date, [success |-> TRUE])
                    ELSE IF f.kind # "array"
                         THEN Caught("POST /api/workouts", date,
                                     "exercises.forEach is not a function")
                         ELSE Caught("POST /api/workouts", date, "constraint failed")
  /\ UNCHANGED <<variant, exercise, exerciseSeq, pc, local>>

\* GET /api/workout-dates: SELECT DISTINCT date FROM workout ORDER BY date DESC
GetWorkoutDatesB ==
  /\ Sync
  /\ resp' = Ok("GET /api/workout-dates", 0,
                [dates |-> SortDesc({w.date : w \in workout})])
  /\ UNCHANGED <<variant, exercise, workout, exerciseSeq, workoutSeq, pc, local>>

\* DELETE /api/workouts/:date
DeleteWorkoutsB(date) ==
  /\ Sync
  /\ workout' = DeleteWhereDate(workout, date)
  /\ resp' = Ok("DELETE /api/workouts/:date", date, [success |-> TRUE,
                 deletedRows |-> Cardinality({w \in workout : w.date = date})])
  /\ UNCHANGED <<variant, exercise, exerciseSeq, workoutSeq, pc, local>>

(* --------------------------- specifications ---------------------------- *)
NoResponse ==
  [op |-> "", arg |-> 0, status |-> 0, error |-> "", data |-> ErrorBody("")]

\* Either program, started on empty tables.
Init ==
  /\ variant \in {"rest", "embedded"}
  /\ exercise = {} /\ workout = {}
  /\ exerciseSeq = 0 /\ workoutSeq = 0
  /\ pc = [p \in Procs |-> "idle"]
  /\ local = [p \in Procs |-> NoLocal]
  /\ resp = NoResponse

\* One request of the single endpoint, or the continuation of one, in slot p.
StepA(p, fields) ==
  \/ GetExercisesA(p)
  \/ \E id \in ExerciseIds : GetExerciseA(p, id)
  \/ \E date \in Dates : GetWorkoutA(p, date)
  \/ GetDatesA(p)
  \/ \E date \in Dates, f \in fields : PostWorkoutA(p, date, f)
  \/ saveWorkout_insert(p)
  \/ \E b \in Bodies : PostExerciseA(p, b.name, b.gif)
  \/ \E id \in ExerciseIds, b \in Bodies : PutExerciseA(p, id, b.name, b.gif)
  \/ \E date \in Dates : DeleteWorkoutA(p, date)
  \/ \E id \in ExerciseIds : DeleteExerciseA(p, id)
  \/ deleteExercise_delete(p)
  \/ InvalidA(p)
  \/ MethodNotAllowedA(p)

\* One request of the per-resource routes.
StepB ==
  \/ GetExercisesB
  \/ \E id \in ExerciseIds : GetExerciseB(id)
  \/ \E b \in Bodies : PostExerciseB(b.name, b.gif)
  \/ \E id \in ExerciseIds, b \in Bodies : PutExerciseB(id, b.name, b.gif)
  \/ \E id \in ExerciseIds : DeleteExerciseB(id)
  \/ \E date \in Dates : GetWorkoutsB(date)
  \/ \E date \in Dates \cup {NoDate}, f \in ExercisesFieldsUpTo(MaxLen) :
       PostWorkoutsB(date, f)
  \/ GetWorkoutDatesB
  \/ \E date \in Dates : DeleteWorkoutsB(date)

\* Requests issued one at a time: each is answered before the next is sent.
Next == StepA("p1", ExercisesFieldsUpTo(MaxLen)) \/ StepB

Spec == Init /\ [][Next]_vars


\* The single-endpoint program with two requests in flight at a time, their
\* store calls interleaving in any order, started on the store two
\* POST action=exercise requests leave behind.  The requests are those that
\* read or write the workout table and the delete of an exercise.
InitConc ==
  /\ variant = "rest"
  /\ exercise = {[id |-> 1, name |-> "a", gif |-> "g"],
                 [id |-> 2, name |-> "b", gif |-> "h"]}
  /\ exerciseSeq = 2
  /\ workout = {} /\ workoutSeq = 0
  /\ pc = [p \in Procs |-> "idle"]
  /\ local = [p \in Procs |-> NoLocal]
  /\ resp = NoResponse

StepConc(p, fields) ==
  \/ \E date \in Dates : GetWorkoutA(p, date)
  \/ \E date \in Dates, f \in fields : PostWorkoutA(p, date, f)
  \/ saveWorkout_insert(p)
  \/ \E date \in Dates : DeleteWorkoutA(p, date)
  \/ \E id \in ExerciseIds : DeleteExerciseA(p, id)
  \/ deleteExercise_delete(p)

NextConc == \E p \in Procs : StepConc(p, ExercisesFieldsUpTo(ConcMaxLen))

SpecConc == InitConc /\ [][NextConc]_vars

\* The same program with one client writing (p1), its requests one at a
\* time, and one client reading workouts (p2) at any moment.
Reader(p) == \E date \in Dates : GetWorkoutA(p, date)

NextGap == StepConc("p1", ExercisesFieldsUpTo(MaxLen)) \/ Reader("p2")

SpecGap == InitConc /\ [][NextGap]_vars


(* ------------------------------- claims -------------------------------- *)
\* What a save request asks for, read back from the rows of a response.
EntriesOf(rows) ==
  [i \in 1..Len(rows) |->
     [id |-> rows[i].exercise_id, duration |-> rows[i].duration]]

AllExist(ex, items) == \A i \in 1..Len(items) : ForeignKeyHolds(ex, items[i].id)

\* C1: a save of E on a date, all ids of E naming existing exercises,
\* completes, and a get of that date right after it returns one entry per
\* element of E, in E's order, with E's exercise ids and durations, whatever
\* the date held before; on the single endpoint and on the routes.
C1_SaveThenGet ==
  [][ /\ (variant = "rest" /\ pc["p1"] = "saveWorkout_insert"
            /\ pc'["p1"] = "idle"
            /\ AllExist(exercise, local["p1"].exercises))
         => LET got == getWorkoutByDate(workout', exercise', local["p1"].date)
            IN  /\ resp'.status = 200
                /\ got.ok
                /\ EntriesOf(got.rows) = local["p1"].exercises
      /\ (variant = "embedded" /\ resp'.op = "POST /api/workouts"
            /\ resp'.arg \in Dates)
         => \A a \in ArraysUpTo(MaxLen) :
              (PostWorkoutsB(resp'.arg, Arr(a)) /\ AllExist(exercise, a))
              => /\ resp'.status = 200
                 /\ EntriesOf(JoinByDate(workout', exercise', resp'.arg)) = a
    ]_vars

\* C1 witness: a get answered with two entries whose ids show that earlier
\* rows had been inserted before them.
C1_Witness ==
  /\ resp.op \in {"GET workout", "GET /api/workouts/:date"}
  /\ resp.status = 200
  /\ Len(resp.data.workouts) = 2
  /\ resp.data.workouts[1].id > 1
  /\ resp.data.workouts[1].exercise_id # resp.data.workouts[2].exercise_id
  /\ resp.data.workouts[1].duration # resp.data.workouts[2].duration

\* C6: the list of workout dates holds exactly the dates that have an entry,
\* each once, in descending order, for every workout table the program reaches.
C6_DatesUniqueDescending ==
  LET ds == IF variant = "rest" THEN getAllWorkoutDates(workout)
            ELSE SortDesc({w.date : w \in workout})
  IN  /\ {ds[i] : i \in 1..Len(ds)} = {w.date : w \in workout}
      /\ \A i \in 1..(Len(ds) - 1) : ds[i] > ds[i + 1]

\* C6 witness: the dates were listed while two entries shared one date and a
\* third entry had another date.
C6_Witness ==
  /\ resp.op \in {"GET dates", "GET /api/workout-dates"}
  /\ Len(resp.data.dates) = 2
  /\ Cardinality(workout) = 3
  /\ {w.date : w \in workout} = {resp.data.dates[1], resp.data.dates[2]}


Exists(id) == \E e \in exercise : e.id = id
Referenced(id) == \E w \in workout : w.exercise_id = id
Blocked(r) ==
  /\ r.status >= 400
  /\ r.error = "Cannot delete exercise that is used in workouts"

\* C2: requests one at a time.  A delete of an existing exercise that a workout
\* entry references fails with the conflict error and changes neither table;
\* a delete of an existing exercise that no entry references removes exactly
\* that row and reports success (so it succeeds once the referencing workouts
\* have been deleted).
C2_DeletionGuard ==
  [][ \A id \in ExerciseIds :
        /\ ((DeleteExerciseA("p1", id) \/ DeleteExerciseB(id))
              /\ Exists(id) /\ Referenced(id))
           => /\ Blocked(resp')
              /\ pc' = pc
              /\ exercise' = exercise /\ workout' = workout
        /\ (DeleteExerciseA("p1", id) /\ Exists(id) /\ ~Referenced(id))
           => /\ pc'["p1"] = "deleteExercise_delete" /\ local'["p1"].id = id
              /\ exercise' = exercise /\ workout' = workout
        /\ (((DeleteExerciseB(id) /\ ~Referenced(id))
               \/ (deleteExercise_delete("p1") /\ local["p1"].id = id))
              /\ Exists(id))
           => /\ resp'.status = 200 /\ resp'.data.success
              /\ exercise' = {e \in exercise : e.id # id}
              /\ Cardinality(exercise') = Cardinality(exercise) - 1
              /\ workout' = workout
    ]_vars

\* C2 witness: a delete of an exercise succeeded after workouts had been saved
\* and removed again, another exercise staying in the table.
C2_Witness ==
  /\ resp.op \in {"DELETE exercise", "DELETE /api/exercises/:id"}
  /\ resp.status = 200
  /\ workoutSeq > 0 /\ workout = {}
  /\ ~Exists(resp.arg) /\ exercise # {}

\* C3: on the routes, a save that fails after its delete (the store rejects
\* the insert of an element, or exercises is no array) answers with an error
\* and leaves the workout table exactly as it was before the request.
C3_SaveAllOrNothing ==
  [][ (variant = "embedded" /\ resp'.op = "POST /api/workouts")
      => \A f \in ExercisesFieldsUpTo(MaxLen) :
           (PostWorkoutsB(resp'.arg, f)
              /\ (f.kind # "array"
                  \/ \E i \in 1..Len(f.items) :
                       ~WorkoutRowAccepted(exercise, resp'.arg, f.items[i])))
           => /\ resp'.status = 500
              /\ workout' = workout
    ]_vars

\* C3 witness: a save was rejected by the store and the date it named still
\* holds entries.
C3_Witness ==
  /\ resp.op = "POST /api/workouts"
  /\ resp.status = 500 /\ resp.error = "constraint failed"
  /\ \E w \in workout : w.date = resp.arg

\* C4: a delete of an exercise that is blocked by a referencing workout entry
\* is answered with status 400, on the single endpoint and on the routes.
C4_BlockedDeleteIs400 ==
  (resp.op \in {"DELETE exercise", "DELETE /api/exercises/:id"}
     /\ resp.error = "Cannot delete exercise that is used in workouts")
  => resp.status = 400

\* C5: an exercise create or update whose body lacks name or gif, and a
\* workout save whose exercises field is absent or no array, is answered with
\* status 400 and changes neither table, on the single endpoint and on the
\* routes.
C5_ValidationFirst ==
  [][ /\ \A b \in Bodies \ ValidBodies :
           (\/ PostExerciseA("p1", b.name, b.gif)
            \/ PostExerciseB(b.name, b.gif)
            \/ \E id \in ExerciseIds : PutExerciseA("p1", id, b.name, b.gif)
            \/ \E id \in ExerciseIds : PutExerciseB(id, b.name, b.gif))
           => /\ resp'.status = 400
              /\ exercise' = exercise /\ workout' = workout
      /\ \A f \in ExercisesFieldsUpTo(0) \ {Arr(<<>>)} :
           (\E date \in Dates : PostWorkoutA("p1", date, f) \/ PostWorkoutsB(date, f))
           => /\ resp'.status = 400
              /\ exercise' = exercise /\ workout' = workout
    ]_vars

\* C7: an update with a complete body of an id that names no exercise is
\* answered 404 (updated = false) and leaves the exercise table unchanged; of
\* an existing id it replaces that row's name and gif, keeps its id and every
\* other row, and reports success.
C7_UpdateExercise ==
  [][ \A id \in ExerciseIds, b \in ValidBodies :
        (PutExerciseA("p1", id, b.name, b.gif) \/ PutExerciseB(id, b.name, b.gif))
        => /\ updateExercise(exercise, id, b.name, b.gif).updated = Exists(id)
           /\ IF Exists(id)
              THEN /\ resp'.status = 200
                   /\ exercise' = {e \in exercise : e.id # id} \cup
                                    {[id |-> id, name |-> b.name, gif |-> b.gif]}
                   /\ Cardinality(exercise') = Cardinality(exercise)
              ELSE /\ resp'.status = 404
                   /\ exercise' = exercise
    ]_vars

\* C7 witness: an update was answered 404 for an id that names no row of a
\* table that holds another exercise.
C7_Witness ==
  /\ resp.op \in {"PUT exercise", "PUT /api/exercises/:id"}
  /\ resp.status = 404
  /\ ~Exists(resp.arg) /\ exercise # {}

RowsOf(wk, date) == {w \in wk : w.date = date}

\* C8: when saves of one date run concurrently on the single endpoint and all
\* complete, the date holds the entries of one of them only.  A save whose
\* insert of a non-empty E completes, no other save of the date pending, has
\* deleted every earlier row of the date, so the date must hold exactly E.
C8_NoMixture ==
  [][ \A p \in Procs :
        (saveWorkout_insert(p) /\ resp'.status = 200
           /\ local[p].exercises # <<>>
           /\ \A q \in Procs \ {p} :
                ~(pc[q] = "saveWorkout_insert" /\ local[q].date = local[p].date))
        => EntriesOf(OrderById(RowsOf(workout', local[p].date)))
             = local[p].exercises
    ]_vars

\* C9 as claimed: the check of deleteExercise alone suffices, that is, its
\* delete is never issued while a workout entry references the exercise.
C9_PreCheckSuffices ==
  [][ \A p \in Procs :
        deleteExercise_delete(p)
        => ReferencingWorkouts(workout, local[p].id) = {}
    ]_vars

\* C9 as amended: with the store's foreign key rejecting the delete of a
\* referenced exercise, every workout entry's exercise_id names an existing
\* exercise in every state, whatever the interleaving.
C9_ReferencesExist == \A w \in workout : Exists(w.exercise_id)

\* C9 witness: the store rejected the delete of an exercise that passed the
\* check and is referenced now.
C9_Witness ==
  /\ resp.op = "DELETE exercise"
  /\ resp.error = "violates foreign key constraint"
  /\ Exists(resp.arg) /\ Referenced(resp.arg)

\* C10: on the single endpoint a save is a delete and an insert with nothing
\* to undo the delete: (1) when the insert is rejected the request is answered
\* 500 and the date is left without entries; (2) a get of the date between the
\* delete and the insert is answered with an empty workout.
C10_NoRollback ==
  [][ /\ (saveWorkout_insert("p1") /\ ~AllExist(exercise, local["p1"].exercises))
         => /\ resp'.status = 500
            /\ workout' = workout
            /\ RowsOf(workout', local["p1"].date) = {}
      /\ \A date \in Dates :
           (GetWorkoutA("p2", date) /\ pc["p1"] = "saveWorkout_insert"
              /\ local["p1"].date = date)
           => /\ resp'.status = 200
              /\ resp'.data = [workouts |-> <<>>]
    ]_vars

\* C10 witness: between the delete of a save that removed entries and its
\* insert of new ones, a get of the date was answered with no entry.
C10_Witness ==
  /\ pc["p1"] = "saveWorkout_insert"
  /\ local["p1"].replaced > 0 /\ local["p1"].exercises # <<>>
  /\ resp.op = "GET workout" /\ resp.arg = local["p1"].date
  /\ resp.status = 200 /\ resp.data = [workouts |-> <<>>]

====
